---- MODULE Spec2Model ----
(***************************************************************************)
(* Quote Generator: the duplicate-avoiding quote selector of script.js,   *)
(* its share formatters, the /api/tts speech proxy of the server, and the *)
(* page of the remote-fetch variant of script.js.                          *)
(*                                                                         *)
(* Independent parts, each with its own specifications:                    *)
(*   Spec / FairSelectorSpec   the local-quote load of script.js, for      *)
(*                             every short quote list                      *)
(*   ShippedSpec               the same load with LOCAL_QUOTES as shipped  *)
(*   TtsSpec / FairTtsSpec     the speech proxy (both server files)        *)
(*   TypedTtsSpec              the speech proxy, texts of every type       *)
(*   ServerSpec                the speech proxy and the health check       *)
(*   FormatSpec                the pure formatters                         *)
(*   RemoteSpec /              the remote-fetch load of script.js, the     *)
(*     FairRemoteSpec          copy and tweet handlers, the toast          *)
(* JavaScript indices are 0-based; the model's are 1-based (index i here   *)
(* is index i-1 there).  Strings that are only compared are TLA+ strings;  *)
(* strings whose length or characters matter are sequences of UTF-16 code  *)
(* units.                                                                  *)
(***************************************************************************)
EXTENDS Integers, Sequences, FiniteSets, TLC

VARIABLES
    \* ---- script.js (local-quote variant) ----
    quotes,               \* LOCAL_QUOTES
    currentQuote,         \* let currentQuote
    previousQuote,        \* history: currentQuote as fetchNewQuote read it
    isLoading,            \* let isLoading
    pc,                   \* position of the one load in progress
    randomIndex,          \* const randomIndex (first draw)
    newIndex,             \* let newIndex (resample loop)
    view,                 \* which of loadingState/quoteContent/errorState is shown
    actionButtons,        \* copyBtn/tweetBtn displayed
    newQuoteBtnDisabled,  \* elements.newQuoteBtn.disabled
    quoteText,            \* elements.quoteText.textContent
    quoteAuthor,          \* elements.quoteAuthor.textContent
    errorMessage,         \* elements.errorMessage.textContent
    display,              \* which elements have a style.display other than 'none'
    loads,                \* history: calls of fetchNewQuote that have not returned
    lastEvent,            \* history: the event handled last
    \* ---- server (/api/tts) ----
    variant,              \* which server file runs: "https" or "fetch"
    apiKey,               \* process.env.ELEVENLABS_API_KEY
    reqs,                 \* the requests of /api/tts, one record each
    crashed,              \* the node process died of an uncaught exception
    health,               \* the reply of GET /api/health, once it is asked
    \* ---- formatters ----
    fmtQuote,             \* the quote handed to the formatter
    tweetText,            \* result of formatQuoteForTwitter
    fmtDone,              \* the formatter has run
    clipText,             \* result of formatQuoteForSharing, handed to the clipboard
    clipDone,             \* the copy handler has run
    \* ---- script.js (remote-fetch variant) ----
    received,             \* history: what the network and the browser last gave the load
    \* ---- toast notification ----
    toastText,            \* elements.toastMessage.textContent
    toastIcon,            \* the class of the toast's icon
    toastShown,           \* elements.toast carries the class 'show'
    toastTimers,          \* pending hide timers, oldest first, each with its toast's number
    toastCount            \* history: calls of showToast so far

selVars == <<quotes, currentQuote, previousQuote, isLoading, pc, randomIndex,
             newIndex, view, actionButtons, newQuoteBtnDisabled, quoteText,
             quoteAuthor, errorMessage, display, loads, lastEvent>>
ttsVars == <<variant, apiKey, reqs, crashed, health>>
fmtVars == <<fmtQuote, tweetText, fmtDone, clipText, clipDone>>
remVars == <<received>>
toastVars == <<toastText, toastIcon, toastShown, toastTimers, toastCount>>
vars == <<selVars, ttsVars, fmtVars, remVars, toastVars>>

----------------------------------------------------------------------------
(* Bounds of the model *)

\* longest quote list tried
MaxQuotes == 3

----------------------------------------------------------------------------
(* JavaScript values *)

Null == [tag |-> "null"]
Undefined == [tag |-> "undefined"]

\* a quote object {content, author}
Quote(c, a) == [tag |-> "quote", content |-> c, author |-> a]

\* JavaScript truthiness of currentQuote (null and undefined are falsy)
Truthy(q) == q.tag = "quote"

----------------------------------------------------------------------------
(* The selector: script.js, local-quote variant *)

Contents == {"qA", "qB", "qC"}

\* the lists LOCAL_QUOTES is drawn from: every list of at most MaxQuotes
\* records, repeated texts included
QuoteLists ==
    UNION { [1..n -> {Quote(c, "author") : c \in Contents}] : n \in 0..MaxQuotes }

\* the list of lines 20-96 (tags left out)
LOCAL_QUOTES ==
    <<
       Quote("The only way to do great work is to love what you do.",
             "Steve Jobs"),
       Quote("Innovation distinguishes between a leader and a follower.",
             "Steve Jobs"),
       Quote("Life is what happens to you while you're busy making other plans.",
             "John Lennon"),
       Quote("The future belongs to those who believe in the beauty of their dreams.",
             "Eleanor Roosevelt"),
       Quote("It is during our darkest moments that we must focus to see the light.",
             "Aristotle"),
       Quote("Success is not final, failure is not fatal: it is the courage to continue that counts.",
             "Winston Churchill"),
       Quote("The only impossible journey is the one you never begin.",
             "Tony Robbins"),
       Quote("In the middle of difficulty lies opportunity.",
             "Albert Einstein"),
       Quote("Believe you can and you're halfway there.",
             "Theodore Roosevelt"),
       Quote("The only person you are destined to become is the person you decide to be.",
             "Ralph Waldo Emerson"),
       Quote("What lies behind us and what lies before us are tiny matters compared to what lies within us.",
             "Ralph Waldo Emerson"),
       Quote("Do not go where the path may lead, go instead where there is no path and leave a trail.",
             "Ralph Waldo Emerson"),
       Quote("Twenty years from now you will be more disappointed by the things that you didn't do than by the ones you did do.",
             "Mark Twain"),
       Quote("Your time is limited, don't waste it living someone else's life.",
             "Steve Jobs"),
       Quote("If you want to lift yourself up, lift up someone else.",
             "Booker T. Washington")
    >>

\* LOCAL_QUOTES[i]: undefined outside the list
QuoteAt(list, i) == IF i \in 1..Len(list) THEN list[i] ELSE Undefined

\* Math.floor(Math.random() * LOCAL_QUOTES.length): any index of the list;
\* index 0 (here 1) of an empty list
Draws(list) == IF Len(list) = 0 THEN {1} ELSE 1..Len(list)

\* faulty variant of MustResample: the length test is dropped
MustResampleAnyLength(cur, sel, list) ==
    /\ Truthy(cur)
    /\ sel.content = cur.content

\* the condition of line 256
MustResample(cur, sel, list) ==
    /\ Truthy(cur)
    /\ sel.content = cur.content
    /\ Len(list) > 1

\* faulty variants of LoopAgain: the redraw is taken unchecked; the loop
\* never ends
LoopAgainNever(new, first) == FALSE
LoopAgainAlways(new, first) == TRUE

\* the loop condition of line 259
LoopAgain(new, first) == new = first

\* the elements whose style.display the show and hide functions set
Elements == {"loadingState", "quoteContent", "errorState", "copyBtn", "tweetBtn"}

\* hideActionButtons() and showActionButtons(), lines 514-525
hideActionButtons(d) == [d EXCEPT !["copyBtn"] = FALSE, !["tweetBtn"] = FALSE]
showActionButtons(d) == [d EXCEPT !["copyBtn"] = TRUE, !["tweetBtn"] = TRUE]

\* faulty variant of showLoadingState: the quote is left on display
showLoadingStateOverQuote(d) ==
    hideActionButtons([d EXCEPT !["loadingState"] = TRUE, !["errorState"] = FALSE])

\* the style.display settings of showLoadingState(), lines 483-488
showLoadingState(d) ==
    hideActionButtons([d EXCEPT !["loadingState"] = TRUE, !["quoteContent"] = FALSE,
                                !["errorState"] = FALSE])

\* showQuoteContent(), lines 493-497
showQuoteContent(d) ==
    [d EXCEPT !["loadingState"] = FALSE, !["quoteContent"] = TRUE,
              !["errorState"] = FALSE]

\* the style.display settings of showErrorState(), lines 503-509
showErrorState(d) ==
    hideActionButtons([d EXCEPT !["loadingState"] = FALSE, !["quoteContent"] = FALSE,
                                !["errorState"] = TRUE])

\* showLoadingState()
ShowLoadingState ==
    /\ view' = "loading"
    /\ actionButtons' = FALSE
    /\ display' = showLoadingState(display)

\* the synchronous head of fetchNewQuote, up to its await
BeginLoad ==
    /\ isLoading' = TRUE
    /\ loads' = loads + 1
    /\ ShowLoadingState
    /\ newQuoteBtnDisabled' = TRUE
    /\ pc' = "delay"
    /\ UNCHANGED <<quotes, currentQuote, previousQuote, randomIndex, newIndex,
                   quoteText, quoteAuthor, errorMessage, ttsVars, fmtVars, remVars, toastVars>>

\* handleFetchError's message for an error whose text names neither a
\* timeout nor an HTTP status
FetchErrorMessage(online) ==
    IF ~online
    THEN "You appear to be offline. Please check your internet connection and try again."
    ELSE "Unable to fetch quotes at the moment."

\* faulty variant of FinishLoad: the author shown is not refreshed
FinishLoadStaleAuthor(q, online) ==
    /\ previousQuote' = currentQuote
    /\ currentQuote' = q
    /\ IF Truthy(q)
       THEN /\ quoteText' = q.content
            /\ view' = "quote"
            /\ actionButtons' = TRUE
            /\ display' = showActionButtons(showQuoteContent(display))
            /\ UNCHANGED <<quoteAuthor, errorMessage>>
       ELSE /\ view' = "error"
            /\ actionButtons' = FALSE
            /\ display' = showErrorState(showErrorState(display))
            /\ errorMessage' = FetchErrorMessage(online)
            /\ UNCHANGED <<quoteText, quoteAuthor>>
    /\ isLoading' = FALSE
    /\ loads' = loads - 1
    /\ newQuoteBtnDisabled' = FALSE
    /\ pc' = "idle"

\* lines 263-279: store q, display it, log, and the finally block
FinishLoad(q, online) ==
    /\ previousQuote' = currentQuote
    /\ currentQuote' = q
    /\ IF Truthy(q)
       THEN \* displayQuote succeeds
            /\ quoteText' = q.content
            /\ quoteAuthor' = q.author
            /\ view' = "quote"
            /\ actionButtons' = TRUE
            /\ display' = showActionButtons(showQuoteContent(display))
            /\ UNCHANGED errorMessage
       ELSE \* quote.content throws in displayQuote (error view), then
            \* currentQuote.content throws at line 270: handleFetchError
            /\ view' = "error"
            /\ actionButtons' = FALSE
            /\ display' = showErrorState(showErrorState(display))
            /\ errorMessage' = FetchErrorMessage(online)
            /\ UNCHANGED <<quoteText, quoteAuthor>>
    /\ isLoading' = FALSE
    /\ loads' = loads - 1
    /\ newQuoteBtnDisabled' = FALSE
    /\ pc' = "idle"

\* faulty variant of ListAfterDraw: the drawn record is taken out of the list
ListAfterSplice(list, i) == SubSeq(list, 1, i - 1) \o SubSeq(list, i + 1, Len(list))

\* LOCAL_QUOTES after LOCAL_QUOTES[i] is read at lines 253 and 262: as before
ListAfterDraw(list, i) == list

\* new QuoteGenerator(): initializeApp runs to the await inside
\* fetchNewQuote, then the listeners are attached
Startup ==
    /\ pc = "boot"
    /\ lastEvent' = "startup"
    /\ BeginLoad

\* how a new quote is asked for: the New Quote button, or the n / space key
Vias == {"button", "key"}

\* faulty variant of Busy: a request is taken while a load runs
BusyNever(loading) == FALSE

\* the tests of lines 216 and 345: a load is in progress
Busy(loading) == loading

\* a new quote is asked for between two tasks: handleKeyboardShortcuts (n,
\* space) and handleNewQuoteClick; a disabled button gets no click
HandleNewQuoteClick(via) ==
    /\ pc \in {"delay", "idle"}
    /\ via = "button" => ~newQuoteBtnDisabled
    /\ lastEvent' = "newQuote"
    /\ IF Busy(isLoading)
       THEN UNCHANGED <<quotes, currentQuote, previousQuote, isLoading, pc,
                        randomIndex, newIndex, view, actionButtons,
                        newQuoteBtnDisabled, quoteText, quoteAuthor, errorMessage,
                        display, loads, ttsVars, fmtVars, remVars, toastVars>>
       ELSE BeginLoad

\* the 500 ms timer fires: the first draw and the test of line 256
FirstDraw(i) ==
    /\ pc = "delay"
    /\ i \in Draws(quotes)
    /\ randomIndex' = i
    /\ lastEvent' = "timer"
    /\ IF MustResample(currentQuote, QuoteAt(quotes, i), quotes)
       THEN /\ pc' = "resample"
            /\ newIndex' = i
            /\ UNCHANGED <<currentQuote, previousQuote, isLoading, view,
                           actionButtons, newQuoteBtnDisabled, quoteText,
                           quoteAuthor, errorMessage, display, loads>>
       ELSE /\ \E online \in BOOLEAN : FinishLoad(QuoteAt(quotes, i), online)
            /\ UNCHANGED newIndex
    /\ quotes' = ListAfterDraw(quotes, i)
    /\ UNCHANGED <<ttsVars, fmtVars, remVars, toastVars>>

\* one turn of the while loop of lines 259-261, drawing i
Resample(i) ==
    /\ pc = "resample"
    /\ i \in Draws(quotes)
    /\ newIndex' = i
    /\ IF LoopAgain(i, randomIndex)
       THEN UNCHANGED <<currentQuote, previousQuote, isLoading, pc, view,
                        actionButtons, newQuoteBtnDisabled, quoteText,
                        quoteAuthor, errorMessage, display, loads>>
       ELSE \E online \in BOOLEAN : FinishLoad(QuoteAt(quotes, i), online)
    /\ quotes' = ListAfterDraw(quotes, i)
    /\ UNCHANGED <<randomIndex, lastEvent, ttsVars, fmtVars, remVars, toastVars>>

\* the page as shipped: the list is LOCAL_QUOTES of lines 20-96
ShippedSelectorInit ==
    /\ quotes = LOCAL_QUOTES
    /\ currentQuote = Null
    /\ previousQuote = Null
    /\ isLoading = FALSE
    /\ pc = "boot"
    /\ randomIndex = 0
    /\ newIndex = 0
    /\ view = "initial"
    /\ actionButtons = FALSE
    /\ newQuoteBtnDisabled = FALSE
    /\ quoteText = ""
    /\ quoteAuthor = ""
    /\ errorMessage = ""
    /\ display \in [Elements -> BOOLEAN]
    /\ loads = 0
    /\ lastEvent = "none"

SelectorInit ==
    /\ quotes \in QuoteLists
    /\ currentQuote = Null
    /\ previousQuote = Null
    /\ isLoading = FALSE
    /\ pc = "boot"
    /\ randomIndex = 0
    /\ newIndex = 0
    /\ view = "initial"
    /\ actionButtons = FALSE
    /\ newQuoteBtnDisabled = FALSE
    /\ quoteText = ""
    /\ quoteAuthor = ""
    /\ errorMessage = ""
    /\ display \in [Elements -> BOOLEAN]
    /\ loads = 0
    /\ lastEvent = "none"

----------------------------------------------------------------------------
(* Properties of the selector *)

\* the texts of a list are pairwise different
TextsDistinct(list) ==
    \A i, j \in 1..Len(list) : list[i].content = list[j].content => i = j

\* the load that just finished went through the resample loop: its first
\* draw had the text of the quote that was current
Resampled ==
    /\ pc = "idle"
    /\ MustResample(previousQuote, QuoteAt(quotes, randomIndex), quotes)

C2_SingleEntry ==
    Len(quotes) = 1 =>
        /\ pc # "resample"
        /\ pc = "idle" => currentQuote = quotes[1]

\* a one-entry list selected a second time, the current text being the
\* text drawn
C2_Witness ==
    /\ Len(quotes) = 1
    /\ pc = "idle"
    /\ previousQuote = quotes[1]
    /\ currentQuote = quotes[1]

\* C3: under a fair draw the resample loop, once entered, ends, and it ends
\* with an index other than the first draw.
C3_ResampleEnds ==
    /\ (pc = "resample") ~> (pc = "idle")
    /\ [][(pc = "resample" /\ pc' # "resample") => newIndex' # randomIndex]_vars

\* a load that went through the loop and finished on another index
C3_Witness ==
    /\ Resampled
    /\ newIndex # randomIndex
    /\ currentQuote = quotes[newIndex]

\* the record the last finished load drew
LastDrawn == IF Resampled THEN QuoteAt(quotes, newIndex) ELSE QuoteAt(quotes, randomIndex)

\* C18: no selection call is reached with an empty list, and no selection
\* fails at call time, whatever the list.
C18_NeverFailsAtCallTime ==
    /\ Len(quotes) = 0 => randomIndex = 0
    /\ view # "error"

\* C19: the quote collection is non-empty, every record has a non-empty text
\* and author, and the collection is what it was at startup.
C19_CollectionFixed ==
    /\ Len(quotes) > 0
    /\ \A i \in 1..Len(quotes) : quotes[i].content # "" /\ quotes[i].author # ""
    /\ quotes = LOCAL_QUOTES

\* two loads have finished, the second through the redraw loop
C19_Witness ==
    /\ pc = "idle"
    /\ Resampled
    /\ Truthy(previousQuote)
    /\ view = "quote"

\* C20: until the first draw no selection is held; once a load has finished
\* with a quote, the quote held is the record just drawn, and the text and
\* author on display are its text and author.
C20_HoldsWhatIsShown ==
    /\ randomIndex = 0 => currentQuote = Null
    /\ (pc = "idle" /\ Truthy(currentQuote)) =>
          /\ currentQuote = LastDrawn
          /\ view = "quote"
    /\ Truthy(currentQuote) =>
          /\ quoteText = currentQuote.content
          /\ quoteAuthor = currentQuote.author

\* a second selection, of a record with another text, is held and shown
C20_Witness ==
    /\ pc = "idle"
    /\ Truthy(previousQuote)
    /\ Truthy(currentQuote)
    /\ currentQuote.content # previousQuote.content
    /\ quoteText = currentQuote.content

\* C24: no second load starts while one is in progress, and a request for a
\* new quote made while one is in progress changes neither the loads in
\* progress, nor the current quote, nor what is on display.
C24_OneLoadAtATime ==
    [][/\ loads' <= 1
       /\ (lastEvent' = "newQuote" /\ isLoading) =>
             /\ loads' = loads
             /\ pc' = pc
             /\ currentQuote' = currentQuote
             /\ view' = view
             /\ display' = display]_vars

\* a request for a new quote has been made, and ignored, during the startup
\* load
C24_Witness ==
    /\ lastEvent = "newQuote"
    /\ pc = "delay"
    /\ randomIndex = 0
    /\ loads = 1

\* the three views
Views == {"loadingState", "quoteContent", "errorState"}

\* C26: once the page has started, exactly one of the loading view, the quote
\* view and the error view is on display, and the copy and tweet buttons are
\* hidden while it is the loading view or the error view.
C26_OneViewVisible ==
    pc # "boot" =>
        /\ Cardinality({e \in Views : display[e]}) = 1
        /\ (display["loadingState"] \/ display["errorState"]) =>
              (~display["copyBtn"] /\ ~display["tweetBtn"])
        /\ view = "loading" <=> display["loadingState"]
        /\ view = "quote" <=> display["quoteContent"]
        /\ view = "error" <=> display["errorState"]

\* a second load is on display as loading, after a quote was shown
C26_Witness ==
    /\ pc = "delay"
    /\ Truthy(currentQuote)
    /\ display["loadingState"]
    /\ ~display["copyBtn"]

----------------------------------------------------------------------------
(* The speech proxy: app.post('/api/tts') of the two server files *)

\* most requests in flight at once
MaxRequests == 2

\* longest upstream body, in chunks
MaxBodyLen == 2

Requests == 1..MaxRequests

\* values of req.body.text: absent, null, "", 0, and a non-empty string
JsUndefined == [type |-> "undefined", val |-> ""]
JsNull == [type |-> "null", val |-> ""]
JsString(s) == [type |-> "string", val |-> s]
JsNumber(n) == [type |-> "number", val |-> n]
TextInputs == {JsUndefined, JsNull, JsString(""), JsNumber("0"), JsString("hello")}

\* values of req.body.text that are present and not strings: a number and an
\* array
JsArray == [type |-> "object", val |-> "[]"]
AnyTextInputs == TextInputs \cup {JsNumber("42"), JsArray}

\* JavaScript truthiness of a request text
TextTruthy(t) ==
    \/ t.type = "string" /\ t.val # ""
    \/ t.type = "number" /\ t.val # "0"
    \/ t.type = "object"

\* values of process.env.ELEVENLABS_API_KEY: unset, empty, set
KeyUnset == "<unset>"
ApiKeys == {KeyUnset, "", "sk-1"}
KeyTruthy(k) == k # KeyUnset /\ k # ""

\* status codes the provider may answer with
UpstreamStatuses == {200, 201, 401, 503}

\* upstream bodies: chunk i of a body is the value i
Bodies == { [i \in 1..n |-> i] : n \in 0..MaxBodyLen }

\* the longest of them
LongBody == [i \in 1..MaxBodyLen |-> i]

\* the { error: ... } body of a failure reply: its text and the status code
\* the text quotes (0 when it quotes none)
ErrorBody(message, code) == [message |-> message, status |-> code]
NoError == ErrorBody("", 0)

\* the response object of Express before the handler touches it
FreshRes == [status |-> 200, contentType |-> "", body |-> <<>>,
             headersSent |-> FALSE, ended |-> FALSE, error |-> NoError]

NoRequest == [phase |-> "none", text |-> JsUndefined, upCalls |-> 0,
              upStatus |-> 0, upBody |-> <<>>, upPos |-> 0, upEnded |-> FALSE,
              netError |-> "none", res |-> FreshRes]

\* res.status(code).json({ error: message }) on a response whose headers are
\* not sent: res.json sets the JSON content type only when none is set
JsonError(res, code, body) ==
    [res EXCEPT !.status = code,
                !.contentType = IF res.contentType = "" THEN "application/json"
                                ELSE res.contentType,
                !.error = body,
                !.headersSent = TRUE,
                !.ended = TRUE]

\* which upstream statuses the handler treats as failure: line 76
\* (statusCode !== 200) and line 205 (!response.ok)
IsFailureStatus(v, s) ==
    IF v = "https" THEN s # 200 ELSE ~(s \in 200..299)

\* the error text of lines 84 and 209 (the status text is left out)
UpstreamErrorMessage(s) == ErrorBody("ElevenLabs API error", s)

\* faulty variant of NetworkErrorMessage: the reply quotes the credential
NetworkErrorMessageWithKey(v) == ErrorBody(apiKey, 0)

\* the reply to a transport error: lines 99 and 223
NetworkErrorMessage(v) ==
    IF v = "https" THEN ErrorBody("Network error connecting to ElevenLabs", 0)
    ELSE ErrorBody("Internal server error", 0)

\* a client posts to /api/tts
Arrive(r, t) ==
    /\ ~crashed
    /\ reqs[r].phase = "none"
    /\ reqs' = [reqs EXCEPT ![r].phase = "received", ![r].text = t]
    /\ UNCHANGED <<variant, apiKey, crashed, health, selVars, fmtVars, remVars, toastVars>>

\* faulty variant of TextMissing: only an absent text is refused
TextMissingOnlyAbsent(t) == t.type = "undefined"

\* the test of lines 40 and 178
TextMissing(t) == ~TextTruthy(t)

\* faulty variant of KeyMissing: only an unset variable is refused
KeyMissingOnlyUnset(k) == k = KeyUnset

\* the test of lines 46 and 184
KeyMissing(k) == ~KeyTruthy(k)

\* faulty variant of Forward: the audio headers are written with the call
ForwardAnnounced(q) ==
    [q EXCEPT !.phase = "sent", !.upCalls = @ + 1,
              !.res.contentType = "audio/mpeg", !.res.headersSent = TRUE]

\* lines 73 and 191: the outbound call is made; res is left as it is
Forward(q) == [q EXCEPT !.phase = "sent", !.upCalls = @ + 1]

\* the handler, to its first return or to the outbound call
Handle(r) ==
    /\ ~crashed
    /\ reqs[r].phase = "received"
    /\ reqs' = [reqs EXCEPT ![r] =
         IF TextMissing(@.text)
         THEN [@ EXCEPT !.phase = "done",
                        !.res = JsonError(@, 400, ErrorBody("Text is required", 0))]
         ELSE IF KeyMissing(apiKey)
         THEN [@ EXCEPT !.phase = "done",
                        !.res = JsonError(@, 500, ErrorBody("ElevenLabs API key not configured", 0))]
         ELSE Forward(@)]
    /\ UNCHANGED <<variant, apiKey, crashed, health, selVars, fmtVars, remVars, toastVars>>

\* the provider's status line and headers arrive
UpstreamStatus(r, s, b) ==
    /\ ~crashed
    /\ reqs[r].phase = "sent"
    /\ reqs' = [reqs EXCEPT ![r] =
         IF IsFailureStatus(variant, s)
         THEN [@ EXCEPT !.phase = "errbody", !.upStatus = s, !.upBody = b]
         ELSE [@ EXCEPT !.phase = "piping", !.upStatus = s, !.upBody = b,
                        !.res.contentType = "audio/mpeg"]]
    /\ UNCHANGED <<variant, apiKey, crashed, health, selVars, fmtVars, remVars, toastVars>>

\* faulty variant of Piped: the chunk is altered on its way
PipedAltered(chunk) == chunk + 1

\* what pipe() writes to the response for an upstream chunk
Piped(chunk) == chunk

\* a chunk of the provider's body arrives
UpstreamData(r) ==
    /\ ~crashed
    /\ reqs[r].phase \in {"errbody", "piping"}
    /\ reqs[r].upPos < Len(reqs[r].upBody)
    /\ reqs' = [reqs EXCEPT ![r] =
         IF @.phase = "piping"
         THEN [@ EXCEPT !.upPos = @ + 1,
                        !.res.body = Append(@, Piped(reqs[r].upBody[reqs[r].upPos + 1])),
                        !.res.headersSent = TRUE]
         ELSE [@ EXCEPT !.upPos = @ + 1]]
    /\ UNCHANGED <<variant, apiKey, crashed, health, selVars, fmtVars, remVars, toastVars>>

\* the provider's body ends
UpstreamEnd(r) ==
    /\ ~crashed
    /\ reqs[r].phase \in {"errbody", "piping"}
    /\ reqs[r].upPos = Len(reqs[r].upBody)
    /\ reqs' = [reqs EXCEPT ![r] =
         IF @.phase = "piping"
         THEN [@ EXCEPT !.phase = "done", !.upEnded = TRUE,
                        !.res.headersSent = TRUE, !.res.ended = TRUE]
         ELSE [@ EXCEPT !.phase = "done", !.upEnded = TRUE,
                        !.res = JsonError(@, reqs[r].upStatus,
                                          UpstreamErrorMessage(reqs[r].upStatus))]]
    /\ UNCHANGED <<variant, apiKey, crashed, health, selVars, fmtVars, remVars, toastVars>>

\* faulty variant of AnswerTransportError: the call is made again
RetryTransportError(q, v, when) ==
    [q EXCEPT !.netError = when, !.upCalls = @ + 1]

\* lines 97-100 and 221-224 while nothing is sent yet: the 'error' listener
\* (the catch block) answers 500
AnswerTransportError(q, v, when) ==
    [q EXCEPT !.phase = "done", !.netError = when,
              !.res = JsonError(@, 500, NetworkErrorMessage(v))]

\* the connection to the provider fails
TransportError(r) ==
    /\ ~crashed
    /\ reqs[r].phase \in {"sent", "errbody", "piping"}
    /\ LET q == reqs[r]
           when == IF q.phase = "sent" THEN "early" ELSE "late"
       IN
       IF q.phase \in {"sent", "errbody"}
       THEN \* no reply is begun: the 'error' listener / the catch block answers
            /\ reqs' = [reqs EXCEPT ![r] = AnswerTransportError(q, variant, when)]
            /\ UNCHANGED crashed
       ELSE IF variant = "fetch"
       THEN \* the body stream fails after the handler returned: nobody ends
            \* res; line 217 puts no 'error' listener on response.body, so a
            \* stream that reports the failure as an 'error' event ends the
            \* process, one that is only closed does not
            /\ reqs' = [reqs EXCEPT ![r] = [q EXCEPT !.phase = "broken", !.netError = when]]
            /\ crashed' \in BOOLEAN
       ELSE IF ~q.res.headersSent
       THEN \* piping, no chunk written yet: the 'error' listener answers
            /\ reqs' = [reqs EXCEPT ![r] = AnswerTransportError(q, variant, when)]
            /\ UNCHANGED crashed
       ELSE \* res.json on sent headers throws inside the 'error' listener
            /\ reqs' = [reqs EXCEPT ![r] = [q EXCEPT !.phase = "broken", !.netError = when]]
            /\ crashed' = TRUE
    /\ UNCHANGED <<variant, apiKey, health, selVars, fmtVars, remVars, toastVars>>

\* no reply of /api/health yet
NoHealth == [answered |-> FALSE, status |-> "", elevenlabs_tts |-> FALSE]

\* faulty variant of HealthReply: an empty credential counts as one
HealthReplyKeySet(k) ==
    [answered |-> TRUE, status |-> "healthy", elevenlabs_tts |-> k # KeyUnset]

\* res.json({ status: 'healthy', timestamp, features: { elevenlabs_tts:
\* !!process.env.ELEVENLABS_API_KEY } }); the timestamp is the clock's reading
\* and is not kept
HealthReply(k) ==
    [answered |-> TRUE, status |-> "healthy", elevenlabs_tts |-> KeyTruthy(k)]

\* a client asks GET /api/health (one such call is followed)
Health ==
    /\ ~crashed
    /\ ~health.answered
    /\ health' = HealthReply(apiKey)
    /\ UNCHANGED <<variant, apiKey, reqs, crashed, selVars, fmtVars, remVars, toastVars>>

TtsInit ==
    /\ variant \in {"https", "fetch"}
    /\ apiKey \in ApiKeys
    /\ reqs = [r \in Requests |-> NoRequest]
    /\ crashed = FALSE
    /\ health = NoHealth


----------------------------------------------------------------------------
(* Properties of the speech proxy *)

\* request r has been handled
Handled(r) == reqs[r].phase \notin {"none", "received"}

\* a text that is empty or absent
EmptyOrAbsent(t) == t \in {JsUndefined, JsNull, JsString("")}

\* a non-empty string
ValidText(t) == t.type = "string" /\ t.val # ""

\* a credential is held by the server
CredentialHeld == apiKey \notin {KeyUnset, ""}

\* s is a prefix of t
IsPrefix(s, t) == Len(s) <= Len(t) /\ s = SubSeq(t, 1, Len(s))

C5_NoCredentialRefused ==
    \A r \in Requests :
        /\ (Handled(r) /\ ValidText(reqs[r].text) /\ ~CredentialHeld) =>
              /\ reqs[r].res.ended
              /\ reqs[r].res.status = 500
              /\ reqs[r].res.error = ErrorBody("ElevenLabs API key not configured", 0)
              /\ reqs[r].upCalls = 0
        /\ reqs[r].upCalls > 0 => CredentialHeld

\* a valid text refused for want of a credential, the variable being set
\* but empty
C5_Witness ==
    \E r \in Requests :
        /\ apiKey = ""
        /\ ValidText(reqs[r].text)
        /\ reqs[r].res.status = 500
        /\ reqs[r].res.ended

\* C6 as stated: a request whose upstream call returned a status other than
\* 200 is answered with that status and the upstream-error body, after
\* exactly one outbound call.
C6_UpstreamStatusPassedOn ==
    \A r \in Requests :
        (reqs[r].upEnded /\ reqs[r].upStatus # 200) =>
            /\ reqs[r].res.ended
            /\ reqs[r].res.status = reqs[r].upStatus
            /\ reqs[r].res.error = ErrorBody("ElevenLabs API error", reqs[r].upStatus)
            /\ reqs[r].upCalls = 1

C8_EventuallyAnswered ==
    \A r \in Requests :
        (reqs[r].phase = "sent") ~>
            (reqs[r].res.ended \/ reqs[r].upStatus # 0 \/ reqs[r].netError # "none")

\* C9: after a 200 from the provider, what the caller has received is at
\* every moment a prefix of the provider's body under the audio content
\* type, and the whole body, unaltered, once the provider's body has ended.
C9_AudioVerbatim ==
    \A r \in Requests :
        (reqs[r].upStatus = 200 /\ reqs[r].netError = "none") =>
            /\ IsPrefix(reqs[r].res.body, reqs[r].upBody)
            /\ reqs[r].res.contentType = "audio/mpeg"
            /\ reqs[r].upEnded =>
                  /\ reqs[r].res.body = reqs[r].upBody
                  /\ reqs[r].res.status = 200
                  /\ reqs[r].res.ended

\* a body of several chunks delivered whole
C9_Witness ==
    \E r \in Requests :
        /\ reqs[r].upStatus = 200
        /\ reqs[r].upEnded
        /\ Len(reqs[r].upBody) >= 2
        /\ reqs[r].res.body = reqs[r].upBody
        /\ reqs[r].res.ended

\* C16: the health check answers with a flag that is true exactly when a
\* non-empty credential is held at that moment, and the step that answers it
\* makes no outbound call.
C16_HealthFlagNoCalls ==
    [][health' # health =>
          /\ health'.elevenlabs_tts = CredentialHeld
          /\ \A r \in Requests : reqs'[r].upCalls = reqs[r].upCalls]_vars

\* the health check has answered true while a call to the provider is out
C16_Witness ==
    /\ health.answered
    /\ health.elevenlabs_tts
    /\ \E r \in Requests : reqs[r].phase = "sent" /\ reqs[r].upCalls = 1

\* a finished JSON failure reply
FailureReply(code, message, quoted, ctype) ==
    [status |-> code, contentType |-> ctype, body |-> <<>>, headersSent |-> TRUE,
     ended |-> TRUE, error |-> [message |-> message, status |-> quoted]]

\* the reply a request is owed, computed from its text, from whether a
\* credential is held, from the server file, and from what the provider has
\* answered so far; the credential's value is no argument of it
ExpectedRes(q, held, v) ==
    LET netMsg == IF v = "https" THEN "Network error connecting to ElevenLabs"
                  ELSE "Internal server error"
        json == "application/json"
    IN
    IF q.phase \in {"none", "received"} THEN FreshRes
    ELSE IF ~TextTruthy(q.text) THEN FailureReply(400, "Text is required", 0, json)
    ELSE IF ~held THEN FailureReply(500, "ElevenLabs API key not configured", 0, json)
    ELSE IF q.upStatus = 0
    THEN IF q.netError = "none" THEN FreshRes
         ELSE FailureReply(500, netMsg, 0, json)
    ELSE IF IsFailureStatus(v, q.upStatus)
    THEN IF q.upEnded
         THEN FailureReply(q.upStatus, "ElevenLabs API error", q.upStatus, json)
         ELSE IF q.netError # "none" THEN FailureReply(500, netMsg, 0, json)
         ELSE FreshRes
    ELSE IF q.netError # "none" /\ v = "https" /\ q.upPos = 0
    THEN FailureReply(500, netMsg, 0, "audio/mpeg")
    ELSE [status |-> 200, contentType |-> "audio/mpeg",
          body |-> SubSeq(q.upBody, 1, q.upPos),
          headersSent |-> (q.upPos > 0 \/ q.upEnded), ended |-> q.upEnded,
          error |-> [message |-> "", status |-> 0]]

C21_NothingBeforeUpstreamStatus ==
    \A r \in Requests :
        (reqs[r].upCalls > 0 /\ reqs[r].upStatus = 0 /\ reqs[r].netError = "none")
            => /\ ~reqs[r].res.headersSent
               /\ ~reqs[r].res.ended
               /\ reqs[r].res.body = <<>>
               /\ reqs[r].res.contentType = ""
               /\ reqs[r].res.error = [message |-> "", status |-> 0]

\* two forwarded requests wait for the provider, nothing sent for either
C21_Witness ==
    \A r \in Requests :
        /\ reqs[r].upCalls = 1
        /\ reqs[r].upStatus = 0
        /\ reqs[r].netError = "none"
        /\ ~reqs[r].res.headersSent

\* C22: every call made to the provider is for a text that is a non-empty
\* string; a text that is a number, an array or an object is never forwarded.
C22_OnlyStringsForwarded ==
    \A r \in Requests : reqs[r].upCalls > 0 => ValidText(reqs[r].text)

C15_FailureNotFatal == ~crashed

----------------------------------------------------------------------------
(* The formatters of script.js.  A string is its sequence of UTF-16 code   *)
(* units.                                                                  *)

\* longest quote text and longest author tried
MaxContentLen == 232
MaxAuthorLen == 230
MaxToasts == 2

\* code units of the characters the formatters write
DQuote == 34
Space == 32
Hash == 35
Comma == 44
Dot == 46
Newline == 10
EmDash == 8212

\* TWITTER_CONFIG.HASHTAGS: 'motivation,inspiration,quotes,dailyquote'
HASHTAGS ==
    <<109, 111, 116, 105, 118, 97, 116, 105, 111, 110, 44, 105, 110, 115, 112,
      105, 114, 97, 116, 105, 111, 110, 44, 113, 117, 111, 116, 101, 115, 44,
      100, 97, 105, 108, 121, 113, 117, 111, 116, 101>>

\* Twitter's limit, the 280 of line 455
TweetLimit == 280

\* the margins of lines 455 and 461
TweetMargin == 10
TruncateMargin == 20

\* s.replace(/,/g, ' #')
RECURSIVE ReplaceCommas(_)
ReplaceCommas(s) ==
    IF s = <<>> THEN <<>>
    ELSE (IF Head(s) = Comma THEN <<Space, Hash>> ELSE <<Head(s)>>)
         \o ReplaceCommas(Tail(s))

\* faulty variant of SubstringTo: the cut starts one code unit late
SubstringToShifted(s, end) ==
    LET e == IF end < 0 THEN 0 ELSE IF end > Len(s) THEN Len(s) ELSE end
    IN IF e = 0 THEN <<>> ELSE SubSeq(s, 2, IF e + 1 > Len(s) THEN Len(s) ELSE e + 1)

\* s.substring(0, end): end below 0 counts as 0, beyond the length as the length
SubstringTo(s, end) ==
    LET e == IF end < 0 THEN 0 ELSE IF end > Len(s) THEN Len(s) ELSE end
    IN SubSeq(s, 1, e)

\* the hashtags of line 452
Hashtags == <<Space, Hash>> \o ReplaceCommas(HASHTAGS)

\* the budget of line 455
TweetBudget == TweetLimit - Len(Hashtags) - TweetMargin

\* faulty variant of KeptLength: only the ellipsis is taken off
KeptLengthEllipsisOnly(q) == TweetBudget - Len(q.author) - 3

\* how many code units of the text line 461 keeps, before clamping
KeptLength(q) == TweetBudget - Len(q.author) - TruncateMargin

\* faulty variant of FitsBudget: a text that just fits is truncated
FitsBudgetStrict(q) ==
    Len(<<DQuote>> \o q.content \o <<DQuote, Space, EmDash, Space>> \o q.author)
        < TweetBudget

\* the test of line 457
FitsBudget(q) ==
    Len(<<DQuote>> \o q.content \o <<DQuote, Space, EmDash, Space>> \o q.author)
        <= TweetBudget

\* formatQuoteForTwitter(quote)
formatQuoteForTwitter(q) ==
    LET baseText == <<DQuote>> \o q.content \o <<DQuote, Space, EmDash, Space>>
                    \o q.author
    IN IF FitsBudget(q)
       THEN baseText \o Hashtags
       ELSE LET truncatedContent ==
                    SubstringTo(q.content, KeptLength(q)) \o <<Dot, Dot, Dot>>
            IN <<DQuote>> \o truncatedContent \o <<DQuote, Space, EmDash, Space>>
               \o q.author \o Hashtags

\* a text of n code units, all different, and an author of n code units
TextOf(n) == [i \in 1..n |-> 1000 + i]
AuthorOf(n) == [i \in 1..n |-> 2000 + i]

\* handleTweetClick formats the current quote
FormatTweet ==
    /\ ~fmtDone
    /\ tweetText' = formatQuoteForTwitter(fmtQuote)
    /\ fmtDone' = TRUE
    /\ UNCHANGED <<fmtQuote, clipText, clipDone, selVars, ttsVars, remVars, toastVars>>

\* faulty variant of formatQuoteForSharing: the separator of the share string
SharingOnOneLine(q) ==
    <<DQuote>> \o q.content \o <<DQuote, Space, EmDash, Space>> \o q.author

\* `"${quote.content}"\n\n— ${quote.author}`
formatQuoteForSharing(q) ==
    <<DQuote>> \o q.content \o <<DQuote, Newline, Newline, EmDash, Space>>
    \o q.author

\* handleCopyClick formats the current quote and hands it to the clipboard
FormatClipboard ==
    /\ ~clipDone
    /\ clipText' = formatQuoteForSharing(fmtQuote)
    /\ clipDone' = TRUE
    /\ UNCHANGED <<fmtQuote, tweetText, fmtDone, selVars, ttsVars, remVars, toastVars>>

\* the quote {content: 'Hi', author: 'Bob'}
SampleQuote == [content |-> <<72, 105>>, author |-> <<66, 111, 98>>]

FormatInit ==
    /\ \/ \E n \in 1..MaxContentLen, m \in 1..MaxAuthorLen :
             fmtQuote = [content |-> TextOf(n), author |-> AuthorOf(m)]
       \/ fmtQuote = SampleQuote
    /\ tweetText = <<>>
    /\ fmtDone = FALSE
    /\ clipText = <<>>
    /\ clipDone = FALSE

----------------------------------------------------------------------------
(* Properties of the formatters *)

\* C10 as stated: the share string is never longer than 280.
C10_TweetWithinLimit == fmtDone => Len(tweetText) <= TweetLimit

\* the untruncated share string: "<text>" -- <author> <hashtags>
FullTweet(q) ==
    <<DQuote>> \o q.content \o <<DQuote, Space, EmDash, Space>> \o q.author
    \o Hashtags

\* the formatter has run and its result is not the untruncated string
Truncated == fmtDone /\ tweetText # FullTweet(fmtQuote)

\* how many code units stand between the opening quote mark and the
\* ellipsis of a truncated result
KeptCount == Len(tweetText) - Len(fmtQuote.author) - Len(Hashtags) - 8

\* C11: a truncated result is the quote mark, a prefix of the text, the
\* ellipsis, then the closing quote mark, the dash, the author and the
\* hashtags exactly as in the untruncated string.
C11_TruncationKeepsPrefixAndSuffix ==
    Truncated =>
        /\ KeptCount \in 0..Len(fmtQuote.content)
        /\ tweetText =
              <<DQuote>> \o SubSeq(fmtQuote.content, 1, KeptCount) \o <<Dot, Dot, Dot>>
              \o <<DQuote, Space, EmDash, Space>> \o fmtQuote.author \o Hashtags

\* a truncation that keeps some of the text and drops some
C11_Witness ==
    /\ Truncated
    /\ KeptCount > 1
    /\ KeptCount < Len(fmtQuote.content)

\* C12 as stated: whenever the untruncated string fits within 280 it is what
\* the formatter returns.
C12_TruncatesOnlyOverLimit ==
    (fmtDone /\ Len(FullTweet(fmtQuote)) <= TweetLimit)
        => tweetText = FullTweet(fmtQuote)

\* C12 amended: whenever the untruncated string fits within 280 less the
\* margin of 10 it is what the formatter returns.
C12_TruncatesOnlyOverMargin ==
    (fmtDone /\ Len(FullTweet(fmtQuote)) <= TweetLimit - TweetMargin)
        => tweetText = FullTweet(fmtQuote)

\* the longest string that is returned whole
C12_Witness ==
    /\ fmtDone
    /\ Len(FullTweet(fmtQuote)) = TweetLimit - TweetMargin
    /\ tweetText = FullTweet(fmtQuote)

\* C13 as stated: a truncation keeps 280, less the author suffix, less the
\* hashtag suffix, less 3 for the ellipsis.
C13_KeepsBudgetLessEllipsis ==
    Truncated =>
        KeptCount = TweetLimit - Len(<<Space, EmDash, Space>> \o fmtQuote.author)
                    - Len(Hashtags) - 3

\* C13 amended: a truncation keeps 280, less the hashtag suffix, less a
\* margin of 10, less the author, less a further 20 (nothing when that is
\* negative); the ellipsis is added to what is kept.
C13_KeepsBudgetLessMargins ==
    Truncated =>
        LET n == TweetLimit - Len(Hashtags) - TweetMargin - Len(fmtQuote.author)
                 - TruncateMargin
        IN KeptCount = IF n < 0 THEN 0 ELSE n

\* a truncation that keeps some of the text
C13_Witness ==
    /\ Truncated
    /\ KeptCount > 0

\* C14: the clipboard string is a double quote, the text, a double quote, two
\* newlines, an em dash, a space and the author, and nothing else; for the
\* quote Hi / Bob it is "Hi" newline newline em-dash space Bob.
C14_ClipboardExact ==
    clipDone =>
        LET n == Len(fmtQuote.content)
            m == Len(fmtQuote.author)
        IN /\ Len(clipText) = n + m + 6
           /\ clipText[1] = DQuote
           /\ \A i \in 1..n : clipText[1 + i] = fmtQuote.content[i]
           /\ clipText[n + 2] = DQuote
           /\ clipText[n + 3] = Newline
           /\ clipText[n + 4] = Newline
           /\ clipText[n + 5] = EmDash
           /\ clipText[n + 6] = Space
           /\ \A j \in 1..m : clipText[n + 6 + j] = fmtQuote.author[j]
           /\ fmtQuote = SampleQuote
                 => clipText = <<34, 72, 105, 34, 10, 10, 8212, 32, 66, 111, 98>>

\* a long quote has been copied whole
C14_Witness ==
    /\ clipDone
    /\ Len(fmtQuote.content) = MaxContentLen
    /\ Len(clipText) = MaxContentLen + Len(fmtQuote.author) + 6

----------------------------------------------------------------------------
(* The page of script.js, remote-fetch variant: fetchNewQuote asks the     *)
(* quote service, the copy and tweet handlers, and the toast.  The texts   *)
(* of errors are sequences of code units, since handleFetchError searches  *)
(* them.                                                                   *)

\* the values a field of the service's JSON may have: absent, a number, a
\* string
Absent == [type |-> "undefined", val |-> <<>>]
Num(digits) == [type |-> "number", val |-> digits]
Str(s) == [type |-> "string", val |-> s]

\* quoteData of line 850: the parsed body, or element 0 of it if the body
\* is an array.  kind is what the value is: an object with fields q and a,
\* null, a string, or undefined (element 0 of an empty array)
Data(array, kind, q, a) == [array |-> array, kind |-> kind, q |-> q, a |-> a]
NoData == Data(FALSE, "null", Absent, Absent)

\* 'Q', ' R' and 'A'; a blank string
TextQ == <<81>>
TextR == <<32, 82>>
AuthorA == <<65>>
Blank == <<32>>

\* bodies the service may send
Payloads ==
    { Data(TRUE, "object", Str(TextQ), Str(AuthorA)),
      Data(FALSE, "object", Str(TextQ), Str(AuthorA)),
      Data(TRUE, "object", Str(TextR), Str(AuthorA)),
      Data(TRUE, "undefined", Absent, Absent),
      Data(TRUE, "null", Absent, Absent),
      Data(FALSE, "null", Absent, Absent),
      Data(FALSE, "string", Absent, Absent),
      Data(TRUE, "object", Absent, Str(AuthorA)),
      Data(TRUE, "object", Num(<<55>>), Str(AuthorA)),
      Data(TRUE, "object", Str(<<>>), Str(AuthorA)),
      Data(TRUE, "object", Str(Blank), Str(AuthorA)),
      Data(TRUE, "object", Str(TextQ), Absent),
      Data(TRUE, "object", Str(TextQ), Num(<<55>>)),
      Data(TRUE, "object", Str(TextQ), Str(Blank)) }

\* the code units String.prototype.trim takes off (the ones below 256)
WhiteSpace == {9, 10, 11, 12, 13, 32, 160}

RECURSIVE TrimStart(_)
TrimStart(s) ==
    IF s # <<>> /\ Head(s) \in WhiteSpace THEN TrimStart(Tail(s)) ELSE s

RECURSIVE TrimEnd(_)
TrimEnd(s) ==
    IF s # <<>> /\ s[Len(s)] \in WhiteSpace
    THEN TrimEnd(SubSeq(s, 1, Len(s) - 1))
    ELSE s

\* String.prototype.trim
Trim(s) == TrimEnd(TrimStart(s))

\* faulty variant of validateQuoteData: the strings are not trimmed
validateQuoteDataUntrimmed(quoteData) ==
    /\ quoteData.kind = "object"
    /\ quoteData.q.type = "string"
    /\ Len(quoteData.q.val) > 0
    /\ quoteData.a.type = "string"
    /\ Len(quoteData.a.val) > 0

\* validateQuoteData(quoteData), lines 925-934: null and undefined are
\* falsy, a string is no object
validateQuoteData(quoteData) ==
    /\ quoteData.kind = "object"
    /\ quoteData.q.type = "string"
    /\ Len(Trim(quoteData.q.val)) > 0
    /\ quoteData.a.type = "string"
    /\ Len(Trim(quoteData.a.val)) > 0

\* String.prototype.includes
Includes(s, sub) ==
    \E i \in 1..(Len(s) - Len(sub) + 1) : SubSeq(s, i, i + Len(sub) - 1) = sub

\* the statuses the service answers with; response.ok
Statuses == {200, 404, 429, 500}
ResponseOk(status) == status \in 200..299

\* the decimal digits of a three-digit status
Digits(n) == <<48 + (n \div 100), 48 + ((n \div 10) % 10), 48 + (n % 10)>>

\* 'OK'
ReasonOk == <<79, 75>>
\* 'Not Found'
ReasonNotFound == <<78, 111, 116, 32, 70, 111, 117, 110, 100>>
\* 'Too Many Requests'
ReasonTooMany ==
    <<84, 111, 111, 32, 77, 97, 110, 121, 32, 82, 101, 113, 117, 101, 115,
      116, 115>>
\* 'Internal Server Error'
ReasonServerError ==
    <<73, 110, 116, 101, 114, 110, 97, 108, 32, 83, 101, 114, 118, 101, 114,
      32, 69, 114, 114, 111, 114>>

\* response.statusText: the reason phrase of the status
StatusText(status) ==
    CASE status = 200 -> ReasonOk
      [] status = 404 -> ReasonNotFound
      [] status = 429 -> ReasonTooMany
      [] OTHER -> ReasonServerError

\* 'HTTP '
HttpPrefix == <<72, 84, 84, 80, 32>>

\* the message of line 844: `HTTP ${response.status}: ${response.statusText}`
HttpError(status) ==
    HttpPrefix \o Digits(status) \o <<58, 32>> \o StatusText(status)

\* the message of line 913
TimedOutError ==
    <<82, 101, 113, 117, 101, 115, 116, 32, 116, 105, 109, 101, 100, 32,
      111, 117, 116, 46, 32, 80, 108, 101, 97, 115, 101, 32, 99, 104, 101,
      99, 107, 32, 121, 111, 117, 114, 32, 105, 110, 116, 101, 114, 110,
      101, 116, 32, 99, 111, 110, 110, 101, 99, 116, 105, 111, 110, 46>>

\* the message of line 854
InvalidDataError ==
    <<73, 110, 118, 97, 108, 105, 100, 32, 113, 117, 111, 116, 101, 32, 100,
      97, 116, 97, 32, 114, 101, 99, 101, 105, 118, 101, 100, 32, 102, 114,
      111, 109, 32, 65, 80, 73>>

\* the message of fetch's TypeError in Chromium: 'Failed to fetch'
FailedToFetch ==
    <<70, 97, 105, 108, 101, 100, 32, 116, 111, 32, 102, 101, 116, 99, 104>>
\* and in Firefox
NetworkErrorFirefox ==
    <<78, 101, 116, 119, 111, 114, 107, 69, 114, 114, 111, 114, 32, 119,
      104, 101, 110, 32, 97, 116, 116, 101, 109, 112, 116, 105, 110, 103,
      32, 116, 111, 32, 102, 101, 116, 99, 104, 32, 114, 101, 115, 111, 117,
      114, 99, 101, 46>>
TransportErrors == {FailedToFetch, NetworkErrorFirefox}

\* response.json() rejects: the body is no JSON, or the connection broke
\* while the body was read
JsonSyntaxError ==
    <<85, 110, 101, 120, 112, 101, 99, 116, 101, 100, 32, 116, 111, 107,
      101, 110, 32, 60, 32, 105, 110, 32, 74, 83, 79, 78, 32, 97, 116, 32,
      112, 111, 115, 105, 116, 105, 111, 110, 32, 48>>
\* 'network error'
BodyNetworkError ==
    <<110, 101, 116, 119, 111, 114, 107, 32, 101, 114, 114, 111, 114>>
BodyErrors == {JsonSyntaxError, BodyNetworkError}

\* the texts handleFetchError searches the message for
WordTimeout == <<116, 105, 109, 101, 111, 117, 116>>
WordHttp429 == <<72, 84, 84, 80, 32, 52, 50, 57>>
WordHttp5 == <<72, 84, 84, 80, 32, 53>>
WordHttp == <<72, 84, 84, 80>>

\* the text of an error view: a fixed text, and the error message quoted
\* inside it, if any
Message(text, quoted) == [text |-> text, quoted |-> quoted]
NoMessage == Message("", <<>>)

\* the text handleFetchError hands to showErrorState, lines 1206-1225;
\* online is navigator.onLine
handleFetchError(message, online) ==
    IF ~online
    THEN Message("You appear to be offline. Please check your internet connection and try again.", <<>>)
    ELSE IF Includes(message, WordTimeout)
    THEN Message("Request timed out. Please check your internet connection and try again.", <<>>)
    ELSE IF Includes(message, WordHttp429)
    THEN Message("Too many requests. Please wait a moment before trying again.", <<>>)
    ELSE IF Includes(message, WordHttp5)
    THEN Message("The quote service is temporarily unavailable. Please try again later.", <<>>)
    ELSE IF Includes(message, WordHttp)
    THEN Message("Service error (${error.message}). Please try again later.", message)
    ELSE IF Includes(message, FailedToFetch)
    THEN Message("Unable to connect to the quote service. Please check your internet connection.", <<>>)
    ELSE Message("Unable to fetch quotes at the moment.", <<>>)

\* what the load was last given: the status of the response, the parsed
\* body, the message of the error thrown, navigator.onLine as
\* handleFetchError read it
Received(status, data, message, online) ==
    [status |-> status, data |-> data, message |-> message, online |-> online]
NoReceived == Received(0, NoData, <<>>, TRUE)

\* the synchronous head of fetchNewQuote, lines 828-840: up to the await of
\* fetch, with the abort timer of line 899 set
BeginFetch ==
    /\ isLoading' = TRUE
    /\ loads' = loads + 1
    /\ ShowLoadingState
    /\ newQuoteBtnDisabled' = TRUE
    /\ pc' = "fetch"
    /\ UNCHANGED <<quotes, currentQuote, previousQuote, randomIndex, newIndex,
                   quoteText, quoteAuthor, errorMessage, ttsVars, fmtVars,
                   remVars, toastVars>>

\* new QuoteGenerator(): initializeApp runs to the await inside
\* fetchNewQuote, then the listeners are attached
RemoteStartup ==
    /\ pc = "boot"
    /\ lastEvent' = "startup"
    /\ BeginFetch

\* a new quote is asked for between two tasks
RemoteNewQuoteClick(via) ==
    /\ pc \in {"fetch", "json", "idle"}
    /\ via = "button" => ~newQuoteBtnDisabled
    /\ lastEvent' = "newQuote"
    /\ IF Busy(isLoading)
       THEN UNCHANGED <<quotes, currentQuote, previousQuote, isLoading, pc,
                        randomIndex, newIndex, view, actionButtons,
                        newQuoteBtnDisabled, quoteText, quoteAuthor, errorMessage,
                        display, loads, ttsVars, fmtVars, remVars, toastVars>>
       ELSE BeginFetch

\* the catch and finally blocks of fetchNewQuote, lines 873-880, for an
\* error with this message
FailLoad(message, online) ==
    /\ errorMessage' = handleFetchError(message, online)
    /\ view' = "error"
    /\ actionButtons' = FALSE
    /\ display' = showErrorState(display)
    /\ isLoading' = FALSE
    /\ loads' = loads - 1
    /\ newQuoteBtnDisabled' = FALSE
    /\ pc' = "idle"
    /\ UNCHANGED <<quotes, currentQuote, previousQuote, randomIndex, newIndex,
                   quoteText, quoteAuthor>>

\* fetch resolves with the response's status and headers: clearTimeout
\* (line 909), the test of line 843, and the await of response.json()
ResponseArrives(status) ==
    /\ pc = "fetch"
    /\ lastEvent' = "response"
    /\ IF ResponseOk(status)
       THEN /\ pc' = "json"
            /\ received' = Received(status, NoData, <<>>, TRUE)
            /\ UNCHANGED <<quotes, currentQuote, previousQuote, isLoading,
                           randomIndex, newIndex, view, actionButtons,
                           newQuoteBtnDisabled, quoteText, quoteAuthor,
                           errorMessage, display, loads>>
       ELSE \E online \in BOOLEAN :
                /\ FailLoad(HttpError(status), online)
                /\ received' = Received(status, NoData, HttpError(status), online)
    /\ UNCHANGED <<ttsVars, fmtVars, toastVars>>

\* the timer of line 899 fires before fetch has resolved: abort, fetch
\* rejects with an AbortError, lines 911-914 throw the timed-out error
TimeoutFires ==
    /\ pc = "fetch"
    /\ lastEvent' = "timeout"
    /\ \E online \in BOOLEAN :
           /\ FailLoad(TimedOutError, online)
           /\ received' = Received(0, NoData, TimedOutError, online)
    /\ UNCHANGED <<ttsVars, fmtVars, toastVars>>

\* fetch rejects for a transport failure: line 915 throws the error on
FetchRejects(message) ==
    /\ pc = "fetch"
    /\ lastEvent' = "neterror"
    /\ \E online \in BOOLEAN :
           /\ FailLoad(message, online)
           /\ received' = Received(0, NoData, message, online)
    /\ UNCHANGED <<ttsVars, fmtVars, toastVars>>

\* response.json() resolves: lines 850-880
BodyParsed(quoteData) ==
    /\ pc = "json"
    /\ lastEvent' = "body"
    /\ IF validateQuoteData(quoteData)
       THEN \* lines 858-870 and the finally block
            /\ currentQuote' = Quote(quoteData.q.val, quoteData.a.val)
            /\ quoteText' = quoteData.q.val
            /\ quoteAuthor' = quoteData.a.val
            /\ view' = "quote"
            /\ actionButtons' = TRUE
            /\ display' = showActionButtons(showQuoteContent(display))
            /\ isLoading' = FALSE
            /\ loads' = loads - 1
            /\ newQuoteBtnDisabled' = FALSE
            /\ pc' = "idle"
            /\ received' = Received(received.status, quoteData, <<>>, TRUE)
            /\ UNCHANGED <<quotes, previousQuote, randomIndex, newIndex,
                           errorMessage>>
       ELSE \* the throw of line 854, the catch and the finally block
            \E online \in BOOLEAN :
                /\ FailLoad(InvalidDataError, online)
                /\ received' = Received(received.status, quoteData,
                                        InvalidDataError, online)
    /\ UNCHANGED <<ttsVars, fmtVars, toastVars>>

\* response.json() rejects
BodyFails(message) ==
    /\ pc = "json"
    /\ lastEvent' = "bodyerror"
    /\ \E online \in BOOLEAN :
           /\ FailLoad(message, online)
           /\ received' = Received(received.status, NoData, message, online)
    /\ UNCHANGED <<ttsVars, fmtVars, toastVars>>

\* the class showToast gives the toast's icon, lines 1237-1254
IconOf(type) ==
    CASE type = "success" -> "fas fa-check-circle"
      [] type = "error" -> "fas fa-exclamation-circle"
      [] type = "warning" -> "fas fa-exclamation-triangle"
      [] OTHER -> "fas fa-info-circle"

\* showToast(message, type), lines 1232-1263: the toast is shown and a timer
\* of 3000 ms is set to hide it
ShowToast(message, type) ==
    /\ toastText' = message
    /\ toastIcon' = IconOf(type)
    /\ toastShown' = TRUE
    /\ toastTimers' = Append(toastTimers, toastCount + 1)
    /\ toastCount' = toastCount + 1

\* the oldest hide timer fires (the timers have the same delay, so they fire
\* in the order they were set): line 1261
ToastTimer ==
    /\ toastTimers # <<>>
    /\ toastShown' = FALSE
    /\ toastTimers' = Tail(toastTimers)
    /\ UNCHANGED <<toastText, toastIcon, toastCount, selVars, ttsVars, fmtVars,
                   remVars>>

\* the copy button is clicked (a button that is not displayed gets no
\* click), or the c key is pressed (lines 221-226); handleCopyClick, lines
\* 357-382.  ok: the clipboard takes the text
HandleCopyClick(via, ok) ==
    /\ pc \in {"fetch", "json", "idle"}
    /\ toastCount < MaxToasts
    /\ via = "button" => display["copyBtn"]
    /\ via = "key" => Truthy(currentQuote) /\ ~isLoading
    /\ Truthy(currentQuote)
    /\ IF ok
       THEN /\ clipText' = formatQuoteForSharing(currentQuote)
            /\ ShowToast("Quote copied to clipboard!", "success")
       ELSE /\ UNCHANGED clipText
            /\ ShowToast("Failed to copy quote. Please try selecting and copying manually.", "error")
    /\ clipDone' = TRUE
    /\ UNCHANGED <<fmtQuote, tweetText, fmtDone, selVars, ttsVars, remVars>>

\* the tweet button is clicked, or the t key is pressed (lines 227-232);
\* handleTweetClick, lines 411-434
HandleTweetClick(via) ==
    /\ pc \in {"fetch", "json", "idle"}
    /\ toastCount < MaxToasts
    /\ via = "button" => display["tweetBtn"]
    /\ via = "key" => Truthy(currentQuote) /\ ~isLoading
    /\ Truthy(currentQuote)
    /\ tweetText' = formatQuoteForTwitter(currentQuote)
    /\ fmtDone' = TRUE
    /\ ShowToast("Opening Twitter to share quote...", "info")
    /\ UNCHANGED <<fmtQuote, clipText, clipDone, selVars, ttsVars, remVars>>

\* the window's 'online' event, lines 191-195
OnlineEvent ==
    /\ pc \in {"fetch", "json", "idle"}
    /\ toastCount < MaxToasts
    /\ ShowToast("Connection restored!", "success")
    /\ UNCHANGED <<selVars, ttsVars, fmtVars, remVars>>

\* the window's 'offline' event, lines 197-200
OfflineEvent ==
    /\ pc \in {"fetch", "json", "idle"}
    /\ toastCount < MaxToasts
    /\ ShowToast("You are currently offline", "warning")
    /\ UNCHANGED <<selVars, ttsVars, fmtVars, remVars>>

\* the page before the script runs, remote-fetch variant
RemoteSelectorInit ==
    /\ quotes = <<>>
    /\ currentQuote = Null
    /\ previousQuote = Null
    /\ isLoading = FALSE
    /\ pc = "boot"
    /\ randomIndex = 0
    /\ newIndex = 0
    /\ view = "initial"
    /\ actionButtons = FALSE
    /\ newQuoteBtnDisabled = FALSE
    /\ quoteText = <<>>
    /\ quoteAuthor = <<>>
    /\ errorMessage = NoMessage
    /\ display \in [Elements -> BOOLEAN]
    /\ loads = 0
    /\ lastEvent = "none"

----------------------------------------------------------------------------
(* Properties of the page, remote-fetch variant *)

\* a string with a character that is no white space
NonBlank(s) == \E i \in 1..Len(s) : s[i] \notin WhiteSpace

\* data that are an object whose q and a are non-blank strings
ValidData(d) ==
    /\ d.kind = "object"
    /\ d.q.type = "string" /\ NonBlank(d.q.val)
    /\ d.a.type = "string" /\ NonBlank(d.a.val)

\* this step ends the load in the error view, the stored quote as it was
LoadFailed ==
    /\ pc' = "idle"
    /\ currentQuote' = currentQuote
    /\ view' = "error"
    /\ display'["errorState"] /\ ~display'["quoteContent"]

\* this step is the load's reading of the parsed body
ReadsBody == pc = "json" /\ lastEvent' = "body"

\* C28: in the remote-fetch variant a load that fails (a response that is
\* not OK, invalid data, the timeout, a transport error) leaves currentQuote
\* as it was and ends in the error view; currentQuote changes only when a
\* load has read data whose text and author are non-blank strings, and then
\* to those data
C28_FailedLoadKeepsQuote ==
    [][ /\ (pc \in {"fetch", "json"}
            /\ lastEvent' \in {"timeout", "neterror", "bodyerror"}) => LoadFailed
        /\ (pc = "fetch" /\ lastEvent' = "response"
            /\ received'.status \notin 200..299) => LoadFailed
        /\ (ReadsBody /\ ~ValidData(received'.data)) => LoadFailed
        /\ currentQuote' # currentQuote
              => /\ ReadsBody
                 /\ ValidData(received'.data)
                 /\ currentQuote' = Quote(received'.data.q.val,
                                          received'.data.a.val) ]_vars

\* a load that read bad data has ended in the error view with the quote of
\* an earlier load still stored
C28_Witness ==
    /\ lastEvent = "body"
    /\ received.data = Data(TRUE, "object", Str(Blank), Str(AuthorA))
    /\ view = "error"
    /\ currentQuote = Quote(TextQ, AuthorA)
    /\ pc = "idle"

\* C29: in the remote-fetch variant, when the timeout timer aborts the
\* request while the browser reports being online, the error view says
\* 'Request timed out. Please check your internet connection and try
\* again.'
C29_TimeoutHasItsOwnMessage ==
    (lastEvent = "timeout" /\ received.online)
        => errorMessage.text =
             "Request timed out. Please check your internet connection and try again."

\* the toasts of a copy that was made and of a tweet that was opened
ShareToasts == {"Quote copied to clipboard!", "Opening Twitter to share quote..."}

\* C27: a copy or a tweet, by button or by key, takes effect only while the
\* quote view is the visible one
C27_SharesOnlyFromQuoteView ==
    [][ (toastCount' # toastCount /\ toastText' \in ShareToasts)
            => (view = "quote" /\ display["quoteContent"]) ]_vars

\* C25: every load that starts ends, with the loading flag false, the New
\* Quote button enabled again and the quote view or the error view shown
C25_EveryLoadEnds ==
    isLoading ~> (/\ ~isLoading
                  /\ ~newQuoteBtnDisabled
                  /\ view \in {"quote", "error"})

\* C30: a toast is hidden by its own timer only, never by the timer of an
\* earlier toast (the toast on show is the one shown last)
C30_HiddenByOwnTimerOnly ==
    [][ (toastShown /\ ~toastShown') => Head(toastTimers) = toastCount ]_vars

----------------------------------------------------------------------------
(* Specifications.  The parts share no state: each specification runs one  *)
(* part and holds the others at rest.                                      *)

SelectorRest ==
    /\ quotes = <<>>
    /\ currentQuote = Null
    /\ previousQuote = Null
    /\ isLoading = FALSE
    /\ pc = "off"
    /\ randomIndex = 0
    /\ newIndex = 0
    /\ view = "initial"
    /\ actionButtons = FALSE
    /\ newQuoteBtnDisabled = FALSE
    /\ quoteText = ""
    /\ quoteAuthor = ""
    /\ errorMessage = ""
    /\ display = [e \in Elements |-> FALSE]
    /\ loads = 0
    /\ lastEvent = "none"

TtsRest ==
    /\ variant = "https"
    /\ apiKey = KeyUnset
    /\ reqs = [r \in Requests |-> NoRequest]
    /\ crashed = FALSE
    /\ health = NoHealth

FormatRest ==
    /\ fmtQuote = [content |-> <<>>, author |-> <<>>]
    /\ tweetText = <<>>
    /\ fmtDone = FALSE
    /\ clipText = <<>>
    /\ clipDone = FALSE

RemoteRest == received = NoReceived

ToastRest ==
    /\ toastText = ""
    /\ toastIcon = ""
    /\ toastShown = FALSE
    /\ toastTimers = <<>>
    /\ toastCount = 0

\* script.js, local-quote variant
Init == SelectorInit /\ TtsRest /\ FormatRest /\ RemoteRest /\ ToastRest

Next ==
    \/ Startup
    \/ \E via \in Vias : HandleNewQuoteClick(via)
    \/ \E i \in 1..MaxQuotes : FirstDraw(i)
    \/ \E i \in 1..MaxQuotes : Resample(i)

Spec == Init /\ [][Next]_vars

\* the random draw is fair: a draw that stays possible is eventually made
FairSelectorSpec == Spec /\ \A i \in 1..MaxQuotes : WF_vars(Resample(i))

\* the page as shipped
ShippedInit == ShippedSelectorInit /\ TtsRest /\ FormatRest /\ RemoteRest /\ ToastRest

ShippedNext ==
    \/ Startup
    \/ \E via \in Vias : HandleNewQuoteClick(via)
    \/ \E i \in 1..Len(LOCAL_QUOTES) : FirstDraw(i)
    \/ \E i \in 1..Len(LOCAL_QUOTES) : Resample(i)

ShippedSpec == ShippedInit /\ [][ShippedNext]_vars

\* the speech proxy
TtsSpecInit == SelectorRest /\ TtsInit /\ FormatRest /\ RemoteRest /\ ToastRest

TtsNext ==
    \/ \E r \in Requests, t \in TextInputs : Arrive(r, t)
    \/ \E r \in Requests : Handle(r)
    \/ \E r \in Requests, s \in UpstreamStatuses, b \in Bodies : UpstreamStatus(r, s, b)
    \/ \E r \in Requests : UpstreamData(r)
    \/ \E r \in Requests : UpstreamEnd(r)
    \/ \E r \in Requests : TransportError(r)

TtsSpec == TtsSpecInit /\ [][TtsNext]_vars

\* Express runs the handler of every request it has received
FairTtsSpec == TtsSpec /\ \A r \in Requests : WF_vars(Handle(r))

\* the speech proxy, asked with texts of every type
TypedTtsSpecInit == SelectorRest /\ TtsInit /\ FormatRest /\ RemoteRest /\ ToastRest

TypedTtsNext ==
    \/ \E r \in Requests, t \in AnyTextInputs : Arrive(r, t)
    \/ \E r \in Requests : Handle(r)
    \/ \E r \in Requests, s \in UpstreamStatuses, b \in Bodies : UpstreamStatus(r, s, b)
    \/ \E r \in Requests : UpstreamData(r)
    \/ \E r \in Requests : UpstreamEnd(r)
    \/ \E r \in Requests : TransportError(r)

TypedTtsSpec == TypedTtsSpecInit /\ [][TypedTtsNext]_vars

\* the whole server: the speech proxy and the health check; the provider's
\* bodies are the longest ones, sent chunk by chunk
ServerSpecInit == SelectorRest /\ TtsInit /\ FormatRest /\ RemoteRest /\ ToastRest

ServerNext ==
    \/ \E r \in Requests, t \in TextInputs : Arrive(r, t)
    \/ \E r \in Requests : Handle(r)
    \/ \E r \in Requests, s \in UpstreamStatuses : UpstreamStatus(r, s, LongBody)
    \/ \E r \in Requests : UpstreamData(r)
    \/ \E r \in Requests : UpstreamEnd(r)
    \/ \E r \in Requests : TransportError(r)
    \/ Health

ServerSpec == ServerSpecInit /\ [][ServerNext]_vars

\* the formatters
FormatSpecInit == SelectorRest /\ TtsRest /\ FormatInit /\ RemoteRest /\ ToastRest

FormatNext ==
    \/ FormatTweet
    \/ FormatClipboard

FormatSpec == FormatSpecInit /\ [][FormatNext]_vars

\* script.js, remote-fetch variant: the load, the share handlers, the toast
RemoteInit == RemoteSelectorInit /\ TtsRest /\ FormatRest /\ RemoteRest /\ ToastRest

RemoteNext ==
    \/ RemoteStartup
    \/ \E via \in Vias : RemoteNewQuoteClick(via)
    \/ \E status \in Statuses : ResponseArrives(status)
    \/ TimeoutFires
    \/ \E message \in TransportErrors : FetchRejects(message)
    \/ \E quoteData \in Payloads : BodyParsed(quoteData)
    \/ \E message \in BodyErrors : BodyFails(message)
    \/ \E via \in Vias, ok \in BOOLEAN : HandleCopyClick(via, ok)
    \/ \E via \in Vias : HandleTweetClick(via)
    \/ OnlineEvent
    \/ OfflineEvent
    \/ ToastTimer

RemoteSpec == RemoteInit /\ [][RemoteNext]_vars

\* the browser runs a timer that is due; the network owes nothing
FairRemoteSpec == RemoteSpec /\ WF_vars(TimeoutFires) /\ WF_vars(ToastTimer)

====
